---- MODULE Spec2Model ----
(***************************************************************************)
(* CachingInterpolant (src/cached_interpolate/interpolate.py) as a state   *)
(* machine: one instance, its attributes, and the three operations a       *)
(* caller has: construction, __call__ and assignment to `kind`.            *)
(*                                                                         *)
(* Numbers.  Knots and query points are integers.  Coefficients and        *)
(* outputs are exact rationals <<num, den>> in lowest terms with den > 0,  *)
(* so "equal within floating tolerance" is plain equality here.            *)
(* Indices stored in _idxs are 0-based as in the code; TLA+ sequences are  *)
(* 1-based, hence the "+ 1" when a sequence is indexed.                    *)
(***************************************************************************)
EXTENDS Integers, Sequences, FiniteSets, TLC

VARIABLES
    status,        \* "none": no instance yet, "ok": __init__ returned, "failed": __init__ raised
    attrs,         \* the attribute names that exist on the instance
    x_array,       \* self.x_array
    y_array,       \* self.y_array
    kind,          \* self._kind
    data,          \* self._data
    cached,        \* self._cached
    idxs,          \* self._idxs
    diffs,         \* self._diffs
    return_float,  \* self.return_float
    out,           \* what the last operation returned or raised
    nOps,          \* operations performed on the instance since __init__
    lastCall,      \* the last operation and its arguments
    cacheCall      \* the __call__ whose query the current _idxs were located from,
                   \* with the kind and the value array in force at that call

vars == <<status, attrs, x_array, y_array, kind, data, cached, idxs, diffs,
          return_float, out, nOps, lastCall, cacheCall>>

----------------------------------------------------------------------------
(* Bounds of the model.                                                    *)

\* knots lie on the grid 0, 2, .., 2*MaxX; queries on -1 .. 2*MaxX+1
MaxX == 3
\* knot values are 0 .. MaxVal
MaxVal == 1
\* longest query array
MaxQLen == 2
\* operations on one instance after construction
MaxOps == 2

----------------------------------------------------------------------------
(* Exact rational arithmetic standing for the backend's float arithmetic.  *)

Abs(a) == IF a < 0 THEN -a ELSE a

RECURSIVE Gcd(_, _)
Gcd(a, b) == IF b = 0 THEN a ELSE Gcd(b, a % b)

Norm(n, d) ==
    LET g == Gcd(Abs(n), Abs(d))
        s == IF d < 0 THEN -1 ELSE 1
    IN  <<(s * n) \div g, (s * d) \div g>>

Rat(i) == <<i, 1>>
RAdd(a, b) == Norm(a[1] * b[2] + b[1] * a[2], a[2] * b[2])
RSub(a, b) == Norm(a[1] * b[2] - b[1] * a[2], a[2] * b[2])
RMul(a, b) == Norm(a[1] * b[1], a[2] * b[2])
RDiv(a, b) == Norm(a[1] * b[2], a[2] * b[1])

RECURSIVE RSum(_)
RSum(s) == IF s = <<>> THEN Rat(0) ELSE RAdd(Head(s), RSum(Tail(s)))

Max2(a, b) == IF a >= b THEN a ELSE b

\* an array: the function f over 1..n as a tuple
Array(f) == f \o <<>>

----------------------------------------------------------------------------
(* Values the model passes around.                                         *)

AllowedKinds == {"nearest", "linear", "cubic"}

\* a kind string the caller may pass that is not an allowed kind
AnyKind == AllowedKinds \cup {"quadratic"}

\* a query argument `x`: a bare number, or an array of numbers
ScalarQ(v) == [scalar |-> TRUE, val |-> v, pts |-> <<>>]
ArrayQ(s) == [scalar |-> FALSE, val |-> 0, pts |-> s]
NoQ == ArrayQ(<<>>)

\* the optional argument `y` of __call__
NoY == [given |-> FALSE, v |-> <<>>]
GivenY(v) == [given |-> TRUE, v |-> v]

\* self._data: None, a 1-d array (one row) or a 2-d array (rows)
NoData == [st |-> "none", ndim |-> 0, rows |-> <<>>]
Table(nd, rows) == [st |-> "set", ndim |-> nd, rows |-> rows]

\* what an operation hands back: nothing yet, a number, an array, or an exception
NoOut == [tag |-> "none", val |-> <<>>, err |-> ""]
Scal(v) == [tag |-> "scalar", val |-> <<v>>, err |-> ""]
Arr(s) == [tag |-> "array", val |-> s, err |-> ""]
Err(e) == [tag |-> "error", val |-> <<>>, err |-> e]

----------------------------------------------------------------------------
(* Coefficient builder.  build.py is not among the sources; the two        *)
(* functions are modelled from the builder's description (spec 4.2).       *)

\* build_linear_interpolant: row 0 the left value, row 1 the slope
BuildLinear(xx, yy) ==
    LET n == Len(xx)
    IN  << Array([j \in 1..(n - 1) |-> Rat(yy[j])]),
           Array([j \in 1..(n - 1) |->
                     RDiv(Rat(yy[j + 1] - yy[j]), Rat(xx[j + 1] - xx[j]))]) >>

\* second derivatives M of the natural spline: M[1] = M[n] = 0, interior rows
\* solved by the Thomas forward elimination / back substitution
SplineM(xx, yy) ==
    LET n == Len(xx)
        h(j) == xx[j + 1] - xx[j]
        dl(j) == RDiv(Rat(yy[j + 1] - yy[j]), Rat(h(j)))
        a(j) == Rat(h(j - 1))
        b(j) == Rat(2 * (h(j - 1) + h(j)))
        c(j) == Rat(h(j))
        r(j) == RMul(Rat(6), RSub(dl(j), dl(j - 1)))
        fw[j \in 2..(n - 1)] ==
            IF j = 2
            THEN [cp |-> RDiv(c(j), b(j)), dp |-> RDiv(r(j), b(j))]
            ELSE LET den == RSub(b(j), RMul(a(j), fw[j - 1].cp))
                 IN  [cp |-> RDiv(c(j), den),
                      dp |-> RDiv(RSub(r(j), RMul(a(j), fw[j - 1].dp)), den)]
        M[j \in 1..n] ==
            IF j = 1 \/ j = n THEN Rat(0)
            ELSE RSub(fw[j].dp, RMul(fw[j].cp, M[j + 1]))
    IN  Array([j \in 1..n |-> M[j]])

\* build_natural_cubic_spline: value, first derivative, M/2, (M[j+1]-M[j])/(6h)
BuildCubic(xx, yy) ==
    LET n == Len(xx)
        M == SplineM(xx, yy)
        h(j) == xx[j + 1] - xx[j]
        dl(j) == RDiv(Rat(yy[j + 1] - yy[j]), Rat(h(j)))
    IN  << Array([j \in 1..(n - 1) |-> Rat(yy[j])]),
           Array([j \in 1..(n - 1) |->
                     RSub(dl(j), RDiv(RMul(Rat(h(j)), RAdd(RMul(Rat(2), M[j]), M[j + 1])),
                                      Rat(6)))]),
           Array([j \in 1..(n - 1) |-> RDiv(M[j], Rat(2))]),
           Array([j \in 1..(n - 1) |-> RDiv(RSub(M[j + 1], M[j]), Rat(6 * h(j)))]) >>

\* CachingInterpolant.build: the coefficient table of the current kind, or None
build(k, xx, yy) ==
    IF k = "cubic" THEN Table(2, BuildCubic(xx, yy))
    ELSE IF k = "linear" THEN Table(2, BuildLinear(xx, yy))
    ELSE IF k = "nearest" THEN Table(1, << Array([j \in 1..Len(yy) |-> Rat(yy[j])]) >>)
    ELSE NoData

----------------------------------------------------------------------------
(* Knot locator: _construct_cache.                                         *)

\* bk.atleast_1d
AtLeast1d(q) == IF q.scalar THEN <<q.val>> ELSE q.pts

\* mutant: of equally near knots the last one is taken
NearestIndexLast(x, xval) ==
    CHOOSE j \in 0..(Len(x) - 1) :
        /\ \A k \in 0..(Len(x) - 1) : Abs(xval - x[j + 1]) <= Abs(xval - x[k + 1])
        /\ \A k \in (j + 1)..(Len(x) - 1) : Abs(xval - x[k + 1]) > Abs(xval - x[j + 1])

\* bk.argmin(abs(xval - x_array)): the first index of the smallest distance
NearestIndex(x, xval) ==
    CHOOSE j \in 0..(Len(x) - 1) :
        /\ \A k \in 0..(Len(x) - 1) : Abs(xval - x[j + 1]) <= Abs(xval - x[k + 1])
        /\ \A k \in 0..(j - 1) : Abs(xval - x[k + 1]) > Abs(xval - x[j + 1])

\* mutant: the comparison with the knots is >= in place of >
BracketIndexGE(x, xval) ==
    IF xval <= x[1] THEN 0
    ELSE LET below == {j \in 0..(Len(x) - 1) : xval >= x[j + 1]}
         IN  CHOOSE j \in below : \A k \in below : k <= j

\* 0 at or below the first knot, else bk.where(xval > x_array)[0][-1]
BracketIndex(x, xval) ==
    IF xval <= x[1] THEN 0
    ELSE LET below == {j \in 0..(Len(x) - 1) : xval > x[j + 1]}
         IN  CHOOSE j \in below : \A k \in below : k <= j

\* self._idxs after _construct_cache
LocateIdxs(x, k, xv) ==
    IF k = "nearest"
    THEN Array([i \in 1..Len(xv) |-> NearestIndex(x, xv[i])])
    ELSE Array([i \in 1..Len(xv) |-> BracketIndex(x, xv[i])])

\* mutant: the offset is taken from the first knot
OffsetFromFirst(x, ix, xv, i) == xv[i] - x[1]

\* the offset of a query point from the knot its index names
Offset(x, ix, xv, i) == xv[i] - x[ix[i] + 1]

RECURSIVE Pow(_, _)
Pow(b, e) == IF e = 0 THEN 1 ELSE b * Pow(b, e - 1)

\* mutant: the cubic rows are the offset squared, twice
LocateDiffsNoCube(x, k, xv, ix) ==
    LET row(p) == Array([i \in 1..Len(xv) |-> Pow(Offset(x, ix, xv, i), p)])
    IN  IF k = "cubic" THEN <<row(0), row(1), row(2), row(2)>>
        ELSE <<row(0), row(1)>>

\* self._diffs as _construct_cache leaves it when the kind is not "nearest":
\* [ones, d], and for "cubic" also d**2 and d**3
LocateDiffs(x, k, xv, ix) ==
    LET row(p) == Array([i \in 1..Len(xv) |-> Pow(Offset(x, ix, xv, i), p)])
    IN  IF k = "cubic" THEN <<row(0), row(1), row(2), row(3)>>
        ELSE <<row(0), row(1)>>

\* whether _construct_cache assigns self._diffs at all
SetsDiffs(k) == k # "nearest"

\* self.return_float after _construct_cache: set for one point, otherwise left alone
ReturnFloatAfter(rf, xv) == IF Len(xv) = 1 THEN TRUE ELSE rf

----------------------------------------------------------------------------
(* Evaluator: _call_nearest, _call_linear, _call_cubic and the tail of     *)
(* __call__.                                                               *)

\* self._data[self._idxs], with numpy's IndexError for an index past the last value
CallNearest(dat, ix) ==
    IF \E i \in 1..Len(ix) : ix[i] >= Len(dat.rows[1]) THEN Err("IndexError")
    ELSE Arr(Array([i \in 1..Len(ix) |-> dat.rows[1][ix[i] + 1]]))

\* bk.sum(self._data[:, self._idxs] * self._diffs, axis=0), with what numpy
\* raises: an index past the last column, a missing _diffs attribute, shapes
\* that do not broadcast
CallPoly(dat, ix, hasDiffs, df) ==
    IF \E i \in 1..Len(ix) : ix[i] >= Len(dat.rows[1]) THEN Err("IndexError")
    ELSE IF ~hasDiffs THEN Err("AttributeError")
    ELSE LET R == Len(dat.rows)
             M == Len(ix)
             Md == Len(df[1])
             at(i, m) == IF m = 1 THEN 1 ELSE i
         IN  IF R # Len(df) \/ (M # Md /\ M # 1 /\ Md # 1) THEN Err("ValueError")
             ELSE Arr(Array([i \in 1..Max2(M, Md) |->
                        RSum([p \in 1..R |->
                               RMul(dat.rows[p][ix[at(i, M)] + 1], Rat(df[p][at(i, Md)]))])]))

\* the dispatch on self.kind; no branch leaves `out` unbound
Dispatch(k, dat, ix, hasDiffs, df) ==
    IF k = "cubic" THEN CallPoly(dat, ix, hasDiffs, df)
    ELSE IF k = "linear" THEN CallPoly(dat, ix, hasDiffs, df)
    ELSE IF k = "nearest" THEN CallNearest(dat, ix)
    ELSE Err("UnboundLocalError")

\* mutant: the result is never unwrapped
UnwrapNever(rf, o) == o

\* if self.return_float: out = out[0]
Unwrap(rf, o) == IF rf /\ o.tag = "array" THEN Scal(o.val[1]) ELSE o

\* mutant: the locator cache is rebuilt on every call
NeedsRebuildAlways(c, use_cache) == TRUE

\* mutant: only use_cache=False rebuilds the locator cache
NeedsRebuildUncachedOnly(c, use_cache) == ~use_cache

\* whether __call__ runs _construct_cache
NeedsRebuild(c, use_cache) == ~(c /\ use_cache)

----------------------------------------------------------------------------
(* Inputs.                                                                 *)

KnotPos == {2 * i : i \in 0..MaxX}
QVals == (-1)..(2 * MaxX + 1)

StrictlyIncreasing(s) == \A i \in 1..(Len(s) - 1) : s[i] < s[i + 1]

\* knot sequences: the grid with one position left out
KnotSets == {x \in [1..MaxX -> KnotPos] : StrictlyIncreasing(x)}

\* every value array over 0..MaxVal
Values(n) == [1..n -> 0..MaxVal]

\* the two alternating arrays 0, MaxVal, 0, .. and MaxVal, 0, MaxVal, ..
AltValues(n) ==
    {[i \in 1..n |-> IF i % 2 = b THEN MaxVal ELSE 0] : b \in 0..1}

NewYs(n) == {NoY} \cup {GivenY(v) : v \in AltValues(n)}

\* m consecutive grid points from a
Window(a, m) == [i \in 1..m |-> a + i - 1]

\* queries put to a fresh instance: every bare number and one-point array of
\* the grid, every window of 2..MaxQLen consecutive grid points
Queries ==
    {ScalarQ(v) : v \in QVals}
    \cup {ArrayQ(<<v>>) : v \in QVals}
    \cup UNION {{ArrayQ(Window(a, m)) : a \in (-1)..(2 * MaxX + 2 - m)} : m \in 2..MaxQLen}

\* queries replayed against a used instance: a bare number, a one-point array,
\* the first 2..MaxQLen interval midpoints, and an array reaching past the last knot
ReplayQueries ==
    {ScalarQ(1), ArrayQ(<<3>>), ArrayQ(<<3, 2 * MaxX + 1>>)}
    \cup {ArrayQ([i \in 1..m |-> 2 * i - 1]) : m \in 2..MaxQLen}

\* knot sequences as a caller may pass them: increasing, with the first knot
\* repeated, or with the first two knots in decreasing order
RepeatFirst(x) == [x EXCEPT ![2] = x[1]]
SwapFirst(x) == [x EXCEPT ![1] = x[2], ![2] = x[1]]
AnyKnots == KnotSets \cup {RepeatFirst(x) : x \in KnotSets} \cup {SwapFirst(x) : x \in KnotSets}

\* value arrays as a caller may pass them: one shorter than, as long as, or one
\* longer than n
AnyLenValues(n) == UNION {AltValues(m) : m \in (n - 1)..(n + 1)}

\* the kinds of the unvalidated runs: the coefficient table of "nearest" is built
\* by interpolate.py itself for whatever arrays it is given
PlainKinds == {"nearest", "quadratic"}

----------------------------------------------------------------------------
(* The instance.                                                           *)

InitAttrs == {"return_float", "bk"}
BuiltAttrs == InitAttrs \cup {"x_array", "y_array", "_data", "_kind", "_cached"}

NoCall == [op |-> "none", x |-> NoQ, y_given |-> FALSE, y |-> <<>>, use_cache |-> FALSE,
           rebuilt |-> FALSE, arg |-> ""]
NoCache == [x |-> NoQ, at |-> 0, kind |-> "", y |-> <<>>]

Init ==
    /\ status = "none"
    /\ attrs = {}
    /\ x_array = <<>>
    /\ y_array = <<>>
    /\ kind = ""
    /\ data = NoData
    /\ cached = FALSE
    /\ idxs = <<>>
    /\ diffs = <<>>
    /\ return_float = FALSE
    /\ out = NoOut
    /\ nOps = 0
    /\ lastCall = NoCall
    /\ cacheCall = NoCache

\* mutant: the check of `kind` is missing
KindAllowedAny(k) == TRUE

\* the check of `kind` at the head of __init__
KindAllowed(k) == k \in AllowedKinds

\* the attributes __init__ has assigned when it returns or raises
AttrsAfterInit(k) == IF KindAllowed(k) THEN BuiltAttrs ELSE InitAttrs

\* __init__(x, y, kind): raises ValueError before anything but return_float and
\* bk is assigned; otherwise stores the arrays, runs the kind setter, and marks
\* the locator cache absent
Construct(x, y, k) ==
    /\ status = "none"
    /\ return_float' = FALSE
    /\ attrs' = AttrsAfterInit(k)
    /\ lastCall' = [NoCall EXCEPT !.op = "init", !.arg = k]
    /\ IF "_kind" \in attrs'
       THEN /\ status' = "ok"
            /\ x_array' = x
            /\ y_array' = y
            /\ kind' = k
            /\ data' = build(k, x, y)
            /\ cached' = FALSE
            /\ out' = NoOut
       ELSE /\ status' = "failed"
            /\ out' = Err("ValueError")
            /\ UNCHANGED <<x_array, y_array, kind, data, cached>>
    /\ UNCHANGED <<idxs, diffs, nOps, cacheCall>>

\* mutant: the setter marks the locator cache absent
CachedAfterSetKindCleared(c) == FALSE

\* self._cached after an assignment to `kind`: the setter does not touch it
CachedAfterSetKind(c) == c

\* mutant: the setter stores the kind and keeps the old table
DataAfterSetKindStale(k, x, y, dat) == dat

\* self._data after an assignment to `kind`: rebuilt for the new kind
DataAfterSetKind(k, x, y, dat) == build(k, x, y)

\* interpolant.kind = k on a constructed instance: the setter stores the kind
\* unchecked and rebuilds the coefficient table
SetKind(k) ==
    /\ status = "ok"
    /\ nOps < MaxOps
    /\ kind' = k
    /\ data' = DataAfterSetKind(k, x_array, y_array, data)
    /\ cached' = CachedAfterSetKind(cached)
    /\ out' = NoOut
    /\ nOps' = nOps + 1
    /\ lastCall' = [NoCall EXCEPT !.op = "kind", !.arg = k]
    /\ UNCHANGED <<status, attrs, x_array, y_array, idxs, diffs, return_float, cacheCall>>

\* mutant: the new values are not stored
YAfterCallKept(ny, y) == y

\* self.y_array after the `if y is not None` block of __call__
YAfterCall(ny, y) == IF ny.given THEN ny.v ELSE y

\* mutant: the value update forgets to rebuild the coefficient table
DataAfterCallStale(k, x, ny, dat) == dat

\* self._data after the `if y is not None` block of __call__
DataAfterCall(k, x, ny, dat) == IF ny.given THEN build(k, x, ny.v) ELSE dat

\* interpolant(x=q, y=ny, use_cache=use_cache): the value update, the locator
\* rebuild when NeedsRebuild, the dispatch and the unwrapping, in that order;
\* an exception leaves the assignments made before it
Evaluate(q, ny, use_cache) ==
    /\ status = "ok"
    /\ nOps < MaxOps
    /\ y_array' = YAfterCall(ny, y_array)
    /\ data' = DataAfterCall(kind, x_array, ny, data)
    /\ IF NeedsRebuild(cached, use_cache)
       THEN /\ return_float' = ReturnFloatAfter(return_float, AtLeast1d(q))
            /\ cached' = TRUE
            /\ idxs' = LocateIdxs(x_array, kind, AtLeast1d(q))
            /\ IF SetsDiffs(kind)
               THEN /\ diffs' = LocateDiffs(x_array, kind, AtLeast1d(q), idxs')
                    /\ attrs' = attrs \cup {"_idxs", "_diffs"}
               ELSE /\ diffs' = diffs
                    /\ attrs' = attrs \cup {"_idxs"}
            /\ cacheCall' = [x |-> q, at |-> nOps + 1, kind |-> kind, y |-> y_array']
       ELSE UNCHANGED <<return_float, cached, idxs, diffs, attrs, cacheCall>>
    /\ out' = Unwrap(return_float', Dispatch(kind, data', idxs', "_diffs" \in attrs', diffs'))
    /\ lastCall' = [op |-> "call", x |-> q, y_given |-> ny.given, y |-> ny.v,
                    use_cache |-> use_cache, rebuilt |-> NeedsRebuild(cached, use_cache),
                    arg |-> ""]
    /\ nOps' = nOps + 1
    /\ UNCHANGED <<status, x_array, kind>>

----------------------------------------------------------------------------
(* Complex values.  A complex number is <<re, im>> of two rationals; a     *)
(* complex value array is a sequence of <<re, im>> of two integers.        *)

CReal(r) == <<r, Rat(0)>>
CImagUnit == <<Rat(0), Rat(1)>>
CAdd(u, v) == <<RAdd(u[1], v[1]), RAdd(u[2], v[2])>>
CSub(u, v) == <<RSub(u[1], v[1]), RSub(u[2], v[2])>>
CMul(u, v) == <<RSub(RMul(u[1], v[1]), RMul(u[2], v[2])),
                RAdd(RMul(u[1], v[2]), RMul(u[2], v[1]))>>
CInt(z) == <<Rat(z[1]), Rat(z[2])>>

RECURSIVE CSum(_)
CSum(s) == IF s = <<>> THEN CReal(Rat(0)) ELSE CAdd(Head(s), CSum(Tail(s)))

\* the complex array a + b*i, and its .real and .imag
Cx(a, b) == [i \in 1..Len(a) |-> <<a[i], b[i]>>]
RealPart(y) == [i \in 1..Len(y) |-> y[i][1]]
ImagPart(y) == [i \in 1..Len(y) |-> y[i][2]]

\* mutant: the imaginary table is dropped
StackPartsRealOnly(re, im) ==
    Array([p \in 1..Len(re) |-> Array([j \in 1..Len(re[p]) |-> CReal(re[p][j])])])

\* real_ + 1j * imag_ on two stacked real tables of the same shape
StackParts(re, im) ==
    Array([p \in 1..Len(re) |->
        Array([j \in 1..Len(re[p]) |->
            CAdd(CReal(re[p][j]), CMul(CImagUnit, CReal(im[p][j])))])])

\* build_linear_interpolant on complex values: the same two rows, in complex
\* arithmetic
BuildLinearC(xx, yy) ==
    LET n == Len(xx)
    IN  << Array([j \in 1..(n - 1) |-> CInt(yy[j])]),
           Array([j \in 1..(n - 1) |->
                     CMul(CSub(CInt(yy[j + 1]), CInt(yy[j])),
                          CReal(RDiv(Rat(1), Rat(xx[j + 1] - xx[j]))))]) >>

\* CachingInterpolant.build when y_array.dtype == complex
buildC(k, xx, yy) ==
    IF k = "cubic"
    THEN Table(2, StackParts(BuildCubic(xx, RealPart(yy)), BuildCubic(xx, ImagPart(yy))))
    ELSE IF k = "linear" THEN Table(2, BuildLinearC(xx, yy))
    ELSE IF k = "nearest" THEN Table(1, << Array([j \in 1..Len(yy) |-> CInt(yy[j])]) >>)
    ELSE NoData

\* _call_linear and _call_cubic on a complex table: the offset powers are real
CallPolyC(dat, ix, hasDiffs, df) ==
    IF \E i \in 1..Len(ix) : ix[i] >= Len(dat.rows[1]) THEN Err("IndexError")
    ELSE IF ~hasDiffs THEN Err("AttributeError")
    ELSE LET R == Len(dat.rows)
             M == Len(ix)
             Md == Len(df[1])
             at(i, m) == IF m = 1 THEN 1 ELSE i
         IN  IF R # Len(df) \/ (M # Md /\ M # 1 /\ Md # 1) THEN Err("ValueError")
             ELSE Arr(Array([i \in 1..Max2(M, Md) |->
                        CSum([p \in 1..R |->
                               CMul(dat.rows[p][ix[at(i, M)] + 1],
                                    CReal(Rat(df[p][at(i, Md)])))])]))

DispatchC(k, dat, ix, hasDiffs, df) ==
    IF k = "cubic" THEN CallPolyC(dat, ix, hasDiffs, df)
    ELSE IF k = "linear" THEN CallPolyC(dat, ix, hasDiffs, df)
    ELSE IF k = "nearest" THEN CallNearest(dat, ix)
    ELSE Err("UnboundLocalError")

\* __init__(x, y, kind) with a complex y
ConstructC(x, y, k) ==
    /\ status = "none"
    /\ return_float' = FALSE
    /\ attrs' = AttrsAfterInit(k)
    /\ lastCall' = [NoCall EXCEPT !.op = "init", !.arg = k]
    /\ IF "_kind" \in attrs'
       THEN /\ status' = "ok"
            /\ x_array' = x
            /\ y_array' = y
            /\ kind' = k
            /\ data' = buildC(k, x, y)
            /\ cached' = FALSE
            /\ out' = NoOut
       ELSE /\ status' = "failed"
            /\ out' = Err("ValueError")
            /\ UNCHANGED <<x_array, y_array, kind, data, cached>>
    /\ UNCHANGED <<idxs, diffs, nOps, cacheCall>>

\* interpolant(x=q, y=ny, use_cache=use_cache) on an instance with complex values
EvaluateC(q, ny, use_cache) ==
    /\ status = "ok"
    /\ nOps < MaxOps
    /\ y_array' = YAfterCall(ny, y_array)
    /\ data' = IF ny.given THEN buildC(kind, x_array, ny.v) ELSE data
    /\ IF NeedsRebuild(cached, use_cache)
       THEN /\ return_float' = ReturnFloatAfter(return_float, AtLeast1d(q))
            /\ cached' = TRUE
            /\ idxs' = LocateIdxs(x_array, kind, AtLeast1d(q))
            /\ IF SetsDiffs(kind)
               THEN /\ diffs' = LocateDiffs(x_array, kind, AtLeast1d(q), idxs')
                    /\ attrs' = attrs \cup {"_idxs", "_diffs"}
               ELSE /\ diffs' = diffs
                    /\ attrs' = attrs \cup {"_idxs"}
            /\ cacheCall' = [x |-> q, at |-> nOps + 1, kind |-> kind, y |-> y_array']
       ELSE UNCHANGED <<return_float, cached, idxs, diffs, attrs, cacheCall>>
    /\ out' = Unwrap(return_float', DispatchC(kind, data', idxs', "_diffs" \in attrs', diffs'))
    /\ lastCall' = [op |-> "call", x |-> q, y_given |-> ny.given, y |-> ny.v,
                    use_cache |-> use_cache, rebuilt |-> NeedsRebuild(cached, use_cache),
                    arg |-> ""]
    /\ nOps' = nOps + 1
    /\ UNCHANGED <<status, x_array, kind>>

----------------------------------------------------------------------------
(* Specifications.                                                         *)

\* construction with any kind string and an alternating value array
New == \E x \in KnotSets : \E y \in AltValues(Len(x)) : \E k \in AnyKind : Construct(x, y, k)

Call ==
    \E q \in ReplayQueries : \E ny \in NewYs(Len(x_array)) : \E uc \in BOOLEAN :
        Evaluate(q, ny, uc)

AssignKind == \E k \in AnyKind : SetKind(k)

Next == New \/ Call \/ AssignKind

\* one instance through construction and up to MaxOps calls and kind assignments
Spec == Init /\ [][Next]_vars

\* construction with any kind string and any value array
NewAny == \E x \in KnotSets : \E y \in Values(Len(x)) : \E k \in AnyKind : Construct(x, y, k)

\* the first call on a fresh instance, at any query of the grid or at all knots
FirstCall ==
    /\ nOps = 0
    /\ \E q \in Queries \cup {ArrayQ(x_array)} : \E uc \in BOOLEAN : Evaluate(q, NoY, uc)

NextFresh == NewAny \/ FirstCall

\* a fresh instance evaluated once
SpecFresh == Init /\ [][NextFresh]_vars

\* construction from knots and values as passed, nothing assumed of them
NewPlain ==
    \E x \in AnyKnots : \E y \in AnyLenValues(Len(x)) : \E k \in PlainKinds : Construct(x, y, k)

\* the first call, with new values of any length or none
CallPlain ==
    /\ nOps = 0
    /\ \E q \in ReplayQueries : \E uc \in BOOLEAN :
       \E ny \in {NoY} \cup {GivenY(v) : v \in AnyLenValues(Len(x_array))} :
           Evaluate(q, ny, uc)

NextPlain == NewPlain \/ CallPlain

\* a nearest-neighbour instance given unvalidated arrays and evaluated once
SpecPlain == Init /\ [][NextPlain]_vars

\* construction with complex values a + b*i
NewComplex ==
    \E x \in KnotSets : \E a \in Values(Len(x)) : \E b \in AltValues(Len(x)) : \E k \in AnyKind :
        ConstructC(x, Cx(a, b), k)

\* the first call, at a replayed query or at all knots, with new complex values
\* or none
CallComplex ==
    /\ nOps = 0
    /\ \E q \in ReplayQueries \cup {ArrayQ(x_array)} : \E uc \in BOOLEAN :
       \E ny \in {NoY} \cup {GivenY(Cx(a, a)) : a \in AltValues(Len(x_array))} :
           EvaluateC(q, ny, uc)

NextComplex == NewComplex \/ CallComplex

\* an instance with complex values evaluated once
SpecComplex == Init /\ [][NextComplex]_vars

----------------------------------------------------------------------------
(* A new instance evaluated once: __init__(x, y, k) followed by            *)
(* __call__(q, use_cache=False).                                           *)

FreshRaw(x, y, k, q) ==
    LET xv == AtLeast1d(q)
        ix == LocateIdxs(x, k, xv)
        df == IF SetsDiffs(k) THEN LocateDiffs(x, k, xv, ix) ELSE <<>>
    IN  Dispatch(k, build(k, x, y), ix, SetsDiffs(k), df)

FreshOut(x, y, k, q) == Unwrap(ReturnFloatAfter(FALSE, AtLeast1d(q)), FreshRaw(x, y, k, q))

\* the last operation was a __call__
Called == status = "ok" /\ lastCall.op = "call"

\* the last operation was the first __call__ on the instance
CalledFresh == Called /\ nOps = 1

\* the number of knots
N == Len(x_array)

----------------------------------------------------------------------------
(* C1.  Cache correctness: on an instance built with V1, evaluate(Q,       *)
(* use_cache=True) followed by evaluate(Q, new_values=V2, use_cache=True)  *)
(* returns what a new instance built with V2 returns for evaluate(Q,       *)
(* use_cache=False).                                                       *)

\* two operations, the first a call that located Q with the values V1 =
\* cacheCall.y in force (whatever its use_cache: a new instance has no cache to
\* use), the second a call at the same Q with new values and use_cache=True
C1_Scenario ==
    /\ Called
    /\ nOps = 2
    /\ cacheCall.at = 1
    /\ lastCall.use_cache
    /\ lastCall.y_given
    /\ lastCall.x = cacheCall.x

C1_CacheCorrect ==
    C1_Scenario => out = FreshOut(x_array, y_array, kind, lastCall.x)

\* the second call replaced the values and returned an array that differs from
\* what the first values give
C1_Witness ==
    /\ C1_Scenario
    /\ y_array # cacheCall.y
    /\ kind = "cubic"
    /\ out.tag = "array"
    /\ out # FreshOut(x_array, cacheCall.y, kind, lastCall.x)

----------------------------------------------------------------------------
(* C2.  As claimed: evaluate(queries, use_cache=True) rebuilds the locator *)
(* cache from `queries` whenever the query array differs from the one the  *)
(* cache was built from, so after any call with use_cache=True the cache   *)
(* is the one located from that call's query.                              *)

C2_StepIsCall == nOps' = nOps + 1 /\ lastCall'.op = "call"

----------------------------------------------------------------------------
(* C3.  Scalar in, scalar out: when evaluate is called with a bare number  *)
(* and the locator cache is rebuilt from it, the scalar flag is set and    *)
(* the result is the single interpolated value (element 0 of the           *)
(* one-element output), never a one-element array; a call that raises      *)
(* returns nothing.                                                        *)

C3_Case == Called /\ lastCall.rebuilt /\ lastCall.x.scalar

C3_ScalarOut ==
    C3_Case =>
        /\ return_float
        /\ out.tag \in {"scalar", "error"}
        /\ LET raw == FreshRaw(x_array, y_array, kind, lastCall.x)
           IN  IF raw.tag = "array"
               THEN Len(raw.val) = 1 /\ out = Scal(raw.val[1])
               ELSE out = raw

C3_Witness == C3_Case /\ kind = "linear" /\ out.tag = "scalar" /\ out.val[1] # Rat(0)

----------------------------------------------------------------------------
(* C4.  As claimed: the scalar flag is true iff the query the current      *)
(* locator cache was built from was a single value, so a call with         *)
(* use_cache=False and a query of two or more points returns the full      *)
(* array, one output per point.                                            *)

C4_FlagFollowsQuery ==
    /\ (status = "ok" /\ cached) =>
           (return_float <=> Len(AtLeast1d(cacheCall.x)) = 1)
    /\ (Called /\ ~lastCall.use_cache /\ Len(AtLeast1d(lastCall.x)) >= 2) =>
           (out.tag = "array" => Len(out.val) = Len(AtLeast1d(lastCall.x)))
    /\ (Called /\ ~lastCall.use_cache /\ Len(AtLeast1d(lastCall.x)) >= 2) =>
           out.tag # "scalar"

----------------------------------------------------------------------------
(* C5.  Interpolation at the knots: for kind linear and cubic, a new       *)
(* instance evaluated at the one-point array [x_j] returns y_j for every   *)
(* knot x_j, and evaluated at the array of all knots returns the value     *)
(* array.                                                                  *)

C5_Case == CalledFresh /\ kind \in {"linear", "cubic"}

C5_KnotsReproduced ==
    C5_Case =>
        /\ \A j \in 1..N :
               lastCall.x \in {ArrayQ(<<x_array[j]>>), ScalarQ(x_array[j])} =>
                   out = Scal(Rat(y_array[j]))
        /\ lastCall.x = ArrayQ(x_array) =>
               out = Arr([j \in 1..N |-> Rat(y_array[j])])

\* a cubic instance with values that are not all equal, evaluated at all its knots
C5_Witness ==
    /\ C5_Case
    /\ kind = "cubic"
    /\ lastCall.x = ArrayQ(x_array)
    /\ out.tag = "array"
    /\ \E i, j \in 1..N : y_array[i] # y_array[j]

----------------------------------------------------------------------------
(* C6.  Construction with a kind outside {nearest, linear, cubic} raises   *)
(* the configuration error before a coefficient table is built or any      *)
(* locator state exists; construction with a kind inside the set succeeds  *)
(* and leaves the table built.                                             *)

C6_Case == lastCall.op = "init"

C6_InvalidKindRejected ==
    C6_Case =>
        /\ status = "ok" <=> lastCall.arg \in AllowedKinds
        /\ status = "failed" <=> out = Err("ValueError")
        /\ status = "failed" =>
               /\ attrs \cap {"_data", "_kind", "_cached", "_idxs", "_diffs"} = {}
               /\ data = NoData
               /\ idxs = <<>> /\ diffs = <<>>
        /\ status = "ok" =>
               /\ {"_data", "_kind", "_cached"} \subseteq attrs
               /\ data = build(lastCall.arg, x_array, y_array)
               /\ data.st = "set"

C6_Witness == C6_Case /\ status = "failed" /\ lastCall.arg = "quadratic"

----------------------------------------------------------------------------
(* C7.  As claimed: every bracket index in the locator cache lies in       *)
(* 0..n-2 when the cache was located for linear or cubic and in 0..n-1     *)
(* when it was located for nearest, also for queries below the first and   *)
(* above the last knot, so no call indexes a coefficient column that does  *)
(* not exist.                                                              *)

C7_IndexInRange ==
    (status = "ok" /\ cached) =>
        /\ \A i \in 1..Len(idxs) :
               idxs[i] \in 0..(IF cacheCall.kind = "nearest" THEN N - 1 ELSE N - 2)
        /\ out.err # "IndexError"

----------------------------------------------------------------------------
(* C8.  As claimed: right-continuous bracketing.  When the cache is        *)
(* located for linear or cubic, a query equal to an interior knot x_j      *)
(* (0 < j < n-1) gets index j and offset 0.                                *)

\* the locator cache is the one located for linear or cubic
C8_Located == status = "ok" /\ cached /\ cacheCall.kind \in {"linear", "cubic"}

\* query point i is the interior knot with 0-based index j
C8_OnInteriorKnot(i, j) ==
    /\ i \in 1..Len(AtLeast1d(cacheCall.x))
    /\ j \in 1..(N - 2)
    /\ AtLeast1d(cacheCall.x)[i] = x_array[j + 1]

C8_RightContinuous ==
    C8_Located =>
        \A i \in 1..Len(idxs) : \A j \in 1..(N - 2) :
            C8_OnInteriorKnot(i, j) => (idxs[i] = j /\ diffs[2][i] = 0)

(* C8 as amended: the bracketing is left-continuous.  A query equal to an  *)
(* interior knot x_j gets index j-1, the interval that ends at the knot,   *)
(* and offset x_j - x_(j-1), the width of that interval.                   *)

C8_LeftContinuous ==
    C8_Located =>
        \A i \in 1..Len(idxs) : \A j \in 1..(N - 2) :
            C8_OnInteriorKnot(i, j) =>
                /\ idxs[i] = j - 1
                /\ diffs[2][i] = x_array[j + 1] - x_array[j]

C8_Witness ==
    /\ C8_Located
    /\ kind = "cubic"
    /\ N >= 3
    /\ lastCall.x = ArrayQ(<<x_array[2]>>)
    /\ idxs = <<0>>

----------------------------------------------------------------------------
(* C9.  Nearest: a new instance of kind nearest returns, for each query    *)
(* point q, the value y_k of the knot k that minimises |q - knots[j]|,     *)
(* and of two knots equally near the one with the lower index; a query at  *)
(* the midpoint of knots 0 and 1 gets the value at index 0.                *)

C9_Case == CalledFresh /\ kind = "nearest"

C9_Dist(q, k) == Abs(q - x_array[k + 1])

\* k is the lowest index among the knots nearest to q
C9_LowestNearest(q, k) ==
    /\ k \in 0..(N - 1)
    /\ \A j \in 0..(N - 1) : C9_Dist(q, k) <= C9_Dist(q, j)
    /\ \A j \in 0..(k - 1) : C9_Dist(q, j) > C9_Dist(q, k)

C9_NearestLowestIndex ==
    C9_Case =>
        LET xv == AtLeast1d(lastCall.x)
        IN  /\ Len(idxs) = Len(xv)
            /\ \A i \in 1..Len(xv) : C9_LowestNearest(xv[i], idxs[i])
            /\ IF Len(xv) = 1
               THEN out = Scal(Rat(y_array[idxs[1] + 1]))
               ELSE out = Arr([i \in 1..Len(xv) |-> Rat(y_array[idxs[i] + 1])])

\* knots 0, 2, 4 with values 0, 1, 0 queried at 1, midway between the first two
\* knots: the value at index 0
C9_Witness ==
    /\ C9_Case
    /\ x_array = <<0, 2, 4>>
    /\ y_array = <<0, 1, 0>>
    /\ lastCall.x = ScalarQ(1)
    /\ idxs = <<0>>
    /\ out = Scal(Rat(0))

----------------------------------------------------------------------------
(* C10.  As claimed: assigning the kind of an existing instance            *)
(* invalidates both caches: the coefficient table is rebuilt for the new   *)
(* kind and the locator cache is marked invalid, so that the next call     *)
(* rebuilds indices and offset powers even with use_cache=True.            *)

C10_KindChangeInvalidates ==
    (status = "ok" /\ lastCall.op = "kind") =>
        /\ data = build(kind, x_array, y_array)
        /\ ~cached

----------------------------------------------------------------------------
(* C11.  As claimed: evaluate(Q, use_cache=False) always rebuilds the      *)
(* locator cache from Q, whatever the prior state, so its output equals    *)
(* that of a new interpolant with the same knots, the current values and   *)
(* the current kind evaluated at Q.                                        *)

C11_UncachedIsFresh ==
    (Called /\ ~lastCall.use_cache /\ kind \in AllowedKinds) =>
        /\ cacheCall.x = lastCall.x
        /\ idxs = LocateIdxs(x_array, kind, AtLeast1d(lastCall.x))
        /\ out = FreshOut(x_array, y_array, kind, lastCall.x)

----------------------------------------------------------------------------
(* C12.  As claimed: a value array whose length differs from the number    *)
(* of knots is rejected with a validation error at construction and when   *)
(* supplied as new_values to evaluate, and a rejected update leaves the    *)
(* stored value array and coefficient table unchanged; so a constructed    *)
(* instance always holds as many values as knots, and a nearest table      *)
(* with one entry per knot.                                                *)

C12_LengthsMatch ==
    status = "ok" =>
        /\ Len(y_array) = Len(x_array)
        /\ kind = "nearest" => Len(data.rows[1]) = Len(x_array)
        /\ out.err # "IndexError"

----------------------------------------------------------------------------
(* C13.  As claimed: construction with a knot sequence that is not         *)
(* strictly increasing (a duplicate or a decreasing pair) fails with a     *)
(* validation error, so a constructed instance always holds strictly       *)
(* increasing knots.                                                       *)

C13_KnotsIncreasing == status = "ok" => StrictlyIncreasing(x_array)

----------------------------------------------------------------------------
(* C14.  Complex linearity: for linear and cubic, real value arrays a and  *)
(* b over the same knots and any query Q, the interpolant built from       *)
(* y = a + b*i evaluated at Q returns evaluate_a(Q) + i*evaluate_b(Q),     *)
(* where evaluate_a and evaluate_b are the interpolants built from a and   *)
(* from b.                                                                 *)

C14_Case == CalledFresh /\ kind \in {"linear", "cubic"}

\* oa + i*ob of two real results of the same shape; an exception stays as it is
C14_Combine(oa, ob) ==
    IF oa.tag # ob.tag THEN Err("shape")
    ELSE IF oa.tag = "error" THEN (IF oa = ob THEN oa ELSE Err("shape"))
    ELSE [tag |-> oa.tag,
          val |-> [i \in 1..Len(oa.val) |->
                      CAdd(CReal(oa.val[i]), CMul(CImagUnit, CReal(ob.val[i])))],
          err |-> ""]

C14_ComplexLinear ==
    C14_Case =>
        out = C14_Combine(FreshOut(x_array, RealPart(y_array), kind, lastCall.x),
                          FreshOut(x_array, ImagPart(y_array), kind, lastCall.x))

\* a cubic instance whose real and imaginary parts differ, evaluated between knots
C14_Witness ==
    /\ C14_Case
    /\ kind = "cubic"
    /\ RealPart(y_array) # ImagPart(y_array)
    /\ out.tag = "array"
    /\ \E i \in 1..Len(out.val) :
           /\ out.val[i][1] # Rat(0)
           /\ out.val[i][2] # Rat(0)
           /\ out.val[i][1] # out.val[i][2]
           /\ out.val[i][2][2] # 1

----------------------------------------------------------------------------
(* C15.  A call with new_values and use_cache=True on an instance that     *)
(* already has a locator cache replaces the value array and the            *)
(* coefficient table and leaves the bracket-index array, the offset-power  *)
(* table, the cache-valid flag and the scalar-result flag unchanged.       *)

\* the step is such a call
C15_Step ==
    /\ nOps' = nOps + 1
    /\ lastCall'.op = "call"
    /\ lastCall'.y_given
    /\ lastCall'.use_cache
    /\ cached

C15_UpdateKeepsLocator ==
    [][C15_Step =>
          /\ y_array' = lastCall'.y
          /\ data' = build(kind, x_array, lastCall'.y)
          /\ idxs' = idxs
          /\ diffs' = diffs
          /\ cached' = cached
          /\ return_float' = return_float
          /\ attrs' = attrs
          /\ cacheCall' = cacheCall]_vars

\* such a call has happened on a linear instance, with values that differ from
\* those in force when the cache was located
C15_Witness ==
    /\ Called
    /\ lastCall.y_given
    /\ lastCall.use_cache
    /\ ~lastCall.rebuilt
    /\ cacheCall.at < nOps
    /\ cached
    /\ kind = "linear"
    /\ y_array = lastCall.y
    /\ y_array # cacheCall.y
    /\ idxs = LocateIdxs(x_array, cacheCall.kind, AtLeast1d(cacheCall.x))

----------------------------------------------------------------------------
(* C16.  Immediately after a successful construct the coefficient table    *)
(* is built for the given kind and no locator cache exists; the first      *)
(* evaluate on the instance therefore always builds the locator cache      *)
(* from its query, whether use_cache is true or false.                     *)

C16_FirstCallLocates ==
    /\ (status = "ok" /\ lastCall.op = "init") =>
           /\ data = build(kind, x_array, y_array)
           /\ data.st = "set"
           /\ ~cached
           /\ attrs \cap {"_idxs", "_diffs"} = {}
           /\ idxs = <<>> /\ diffs = <<>>
    \* as long as no call has located a cache, there is none and no call has run
    /\ (status = "ok" /\ cacheCall.at = 0) => (~cached /\ lastCall.op # "call")
    \* the first operation being a call, it located the cache from its query
    /\ (Called /\ nOps = 1) =>
           /\ lastCall.rebuilt
           /\ cached
           /\ cacheCall.at = 1
           /\ cacheCall.x = lastCall.x
           /\ "_idxs" \in attrs
           /\ idxs = LocateIdxs(x_array, kind, AtLeast1d(lastCall.x))
           /\ SetsDiffs(kind) => diffs = LocateDiffs(x_array, kind, AtLeast1d(lastCall.x), idxs)

\* a first call with use_cache=True that located its two-point query
C16_Witness ==
    /\ Called
    /\ nOps = 1
    /\ lastCall.use_cache
    /\ cached
    /\ kind = "cubic"
    /\ Len(idxs) = 2
    /\ Len(diffs) = 4

----------------------------------------------------------------------------
(* C17.  For linear and cubic, whenever the locator cache is rebuilt from  *)
(* queries, for every i the stored index is the largest j with             *)
(* knots[j] < queries[i], or 0 when queries[i] <= knots[0], and the        *)
(* stored offset powers are [1, d, d^2, d^3] with                          *)
(* d = queries[i] - knots[indices[i]], 2 rows for linear and 4 for cubic.  *)

C17_Case == Called /\ lastCall.rebuilt /\ kind \in {"linear", "cubic"}

\* j is the index the rule gives the query point q
C17_Bracket(q, j) ==
    /\ j \in 0..(N - 1)
    /\ IF q <= x_array[1] THEN j = 0
       ELSE /\ x_array[j + 1] < q
            /\ \A k \in (j + 1)..(N - 1) : ~(x_array[k + 1] < q)

C17_LocatorRule ==
    C17_Case =>
        LET xv == AtLeast1d(lastCall.x)
            d(i) == xv[i] - x_array[idxs[i] + 1]
        IN  /\ Len(idxs) = Len(xv)
            /\ \A i \in 1..Len(xv) : C17_Bracket(xv[i], idxs[i])
            /\ "_diffs" \in attrs
            /\ Len(diffs) = (IF kind = "cubic" THEN 4 ELSE 2)
            /\ \A p \in 1..Len(diffs) :
                   /\ Len(diffs[p]) = Len(xv)
                   /\ \A i \in 1..Len(xv) : diffs[p][i] = Pow(d(i), p - 1)

\* a cubic cache located from two points, one of them with an offset other than
\* 0 and 1, so that the four powers differ
C17_Witness ==
    /\ C17_Case
    /\ kind = "cubic"
    /\ Len(idxs) = 2
    /\ idxs[2] > 0
    /\ \E i \in 1..2 : diffs[2][i] = 2 /\ diffs[3][i] = 4 /\ diffs[4][i] = 8

----------------------------------------------------------------------------
(* C18.  After any sequence of construct, evaluate (with or without        *)
(* new_values) and kind assignment, the stored coefficient table equals    *)
(* the builder's output for the current knots, the current value array     *)
(* and the current kind (2 rows for linear, 4 for cubic, the values        *)
(* themselves for nearest); it is never stale with respect to values or    *)
(* kind.                                                                   *)

C18_TableCurrent ==
    status = "ok" =>
        /\ data = build(kind, x_array, y_array)
        /\ kind = "linear" =>
               /\ data.rows = BuildLinear(x_array, y_array)
               /\ Len(data.rows) = 2
               /\ \A p \in 1..2 : Len(data.rows[p]) = N - 1
        /\ kind = "cubic" =>
               /\ data.rows = BuildCubic(x_array, y_array)
               /\ Len(data.rows) = 4
               /\ \A p \in 1..4 : Len(data.rows[p]) = N - 1
        /\ kind = "nearest" =>
               data.rows = << [j \in 1..N |-> Rat(y_array[j])] >>

\* a call on a linear or nearest instance followed by the assignment of kind
\* cubic: the table is the four-row cubic one of the values in force
C18_Witness ==
    /\ status = "ok"
    /\ nOps = 2
    /\ lastCall.op = "kind"
    /\ kind = "cubic"
    /\ cacheCall.at = 1
    /\ cacheCall.kind # "cubic"
    /\ y_array = cacheCall.y
    /\ Len(data.rows) = 4
    /\ \E j \in 1..(N - 1) : data.rows[2][j] # Rat(0)

----------------------------------------------------------------------------
(* C19.  The locator-valid flag is monotone: once the first evaluate has   *)
(* set it, no operation (value update, kind assignment, evaluate with any  *)
(* arguments) clears it, so from then on the locator cache is rebuilt on   *)
(* exactly those evaluate calls that pass use_cache=False.                 *)

\* the step is a call on an instance whose flag is set
C19_CallStep == cached /\ nOps' = nOps + 1 /\ lastCall'.op = "call"

C19_FlagMonotone ==
    [][cached =>
          /\ cached'
          /\ C19_CallStep =>
                 IF lastCall'.use_cache
                 THEN /\ cacheCall' = cacheCall
                      /\ idxs' = idxs
                      /\ diffs' = diffs
                      /\ return_float' = return_float
                 ELSE /\ cacheCall'.at = nOps'
                      /\ cacheCall'.x = lastCall'.x
                      /\ idxs' = LocateIdxs(x_array, kind, AtLeast1d(lastCall'.x))]_vars

\* the flag is still set, and the cache still the one of the first call, after
\* a call and the assignment of another kind
C19_Witness ==
    /\ status = "ok"
    /\ nOps = 2
    /\ lastCall.op = "kind"
    /\ cached
    /\ cacheCall.at = 1
    /\ cacheCall.kind # kind
    /\ kind \in AllowedKinds
    /\ idxs = LocateIdxs(x_array, cacheCall.kind, AtLeast1d(cacheCall.x))

----------------------------------------------------------------------------
(* C20.  As claimed: in every reachable state of a constructed             *)
(* interpolant the kind is one of nearest, linear and cubic and the        *)
(* coefficient table is present (not None), also after the kind is         *)
(* reassigned on an existing instance, so evaluate always has a dispatch   *)
(* branch and produces an output.                                          *)

C20_KindAlwaysAllowed ==
    status = "ok" =>
        /\ kind \in AllowedKinds
        /\ data.st = "set"
        /\ out.err # "UnboundLocalError"

====
